---- MODULE Spec2Model ----
(***************************************************************************)
(* The detection service of "Web Application/app.py": the two detection    *)
(* endpoints POST /detect and POST /upload, the history endpoint           *)
(* GET /history, the in-memory list detection_history and the upload       *)
(* directory.  Handlers are coroutines on one event loop: the code between *)
(* two awaits runs atomically, and the only await of a handler is          *)
(* `await file.read()`.  Each handler is therefore two steps, the part up  *)
(* to the await (_begin) and the part after it (_resume).                  *)
(***************************************************************************)
EXTENDS Integers, Sequences, FiniteSets, TLC

\* ---------------------------------------------------------------- bounds
\* Number of detection requests the service receives.
MaxRequests == 2
\* Largest number of boxes the detector reports, all requests together.
MaxBoxes == 2

\* ---------------------------------------------------------------- values
\* Python's None is the empty tuple and any other optional value v is <<v>>
\* or a non-empty tuple; a local that is not bound yet is held as None.
None == <<>>
Some(v) == <<v>>

Requests == 1..MaxRequests

\* UPLOAD_DIR = "uploads"
UPLOAD_DIR == "uploads"

\* The values a client can send.
\* The multipart file of request r: its filename, its declared content type
\* (None when the part declares none) and its bytes, which are either a JPEG
\* picture of r's own or bytes that are no image.
Filenames == {"photo.jpg"}
ContentTypes == {<<"image", "jpeg">>, <<"text", "plain">>, None}
Bytes(r) == {<<"jpeg", r>>, <<"junk", r>>}

\* r.names, the label table of the loaded model.
names == (0 :> "helmet" @@ 1 :> "vest")

\* One raw detection of the model: box.xyxy[0], box.conf[0], box.cls[0].
\* Confidence is held in hundredths.
RawBoxes == {[xyxy |-> <<10, 20, 30, 40>>, conf |-> 90, cls |-> k] : k \in DOMAIN names}

BoxSeqs == UNION {[1..n -> RawBoxes] : n \in 0..MaxBoxes}

\* What a call model(img) can do: raise, or return one Results object for
\* the one image it was given.
ModelErrors == {[cls |-> "RuntimeError", msg |-> "inference failed"]}
ModelOutcomes ==
  {[tag |-> "raise", exc |-> e] : e \in ModelErrors}
    \cup {[tag |-> "return", results |-> <<[boxes |-> bs, names |-> names]>>] : bs \in BoxSeqs}

\* ---------------------------------------------------------------- state
VARIABLES
  detection_history,  \* the module-level list
  uploads,            \* the files of UPLOAD_DIR, each a path and its bytes
  uuid_count,         \* how many identifiers uuid.uuid4() has handed out
  history_response,   \* the body of the last GET /history response
  pc,                 \* per request: "new", "reading" (at the await), "done"
  endpoint,           \* per request: "none" until routed, then "detect" or "upload"
  content_type,       \* per request: file.content_type as upload_image read it
  contents,           \* per request: local contents, the bytes file.read() gave
  file_path,          \* per request: local file_path of upload_image
  img,                \* per request: local img
  results,            \* per request: local results
  detection,          \* per request: local detection
  error,              \* per request: the exception e caught by the handler
  model_calls,        \* per request: number of calls of model(img)
  response            \* per request: the HTTP response sent

vars ==
  <<detection_history, uploads, uuid_count, history_response, pc, endpoint,
    content_type, contents, file_path, img, results, detection, error, model_calls, response>>

locals == <<contents, file_path, img, results, detection, error, model_calls, response>>

\* ---------------------------------------------------------------- helpers
Range(s) == {s[i] : i \in 1..Len(s)}

\* Mutant of uuid4: one identifier made once and handed out again.
uuid4_repeated(count) == count

\* uuid.uuid4(): a token no earlier call returned.
uuid4(count) == count + 1

\* file.content_type.startswith('image/')
startswith_image(ctype) == ctype[1] = "image"

\* cv2.imdecode(nparr, cv2.IMREAD_COLOR): the pixels, or None.
imdecode(bytes) ==
  IF bytes[1] = "jpeg" THEN <<"pixels", bytes[2]>> ELSE None

\* Mutant of path_join: the stored name is the client's filename alone.
path_join_without_token(dir, token, filename) == <<dir, 0, filename>>

\* os.path.join(UPLOAD_DIR, f"{uuid.uuid4()}_{file.filename}")
path_join(dir, token, filename) == <<dir, token, filename>>

\* cv2.imread(file_path): decodes the stored file, None when it cannot.
imread(files, path) ==
  IF \E f \in files : f.path = path
  THEN imdecode((CHOOSE f \in files : f.path = path).contents)
  ELSE None

\* open(file_path, "wb") ... buffer.write(contents)
write_file(files, path, bytes) ==
  {f \in files : f.path # path} \cup {[path |-> path, contents |-> bytes]}

\* The DetectionBox built from one raw box of Results r.
DetectionBox(r, box) ==
  [x1 |-> box.xyxy[1], y1 |-> box.xyxy[2], x2 |-> box.xyxy[3], y2 |-> box.xyxy[4],
   confidence |-> box.conf, class_name |-> r.names[box.cls]]

\* The boxes of all Results, in order (the nested loop of process_detection).
RECURSIVE detection_boxes_of(_)
detection_boxes_of(rs) ==
  IF rs = <<>> THEN <<>>
  ELSE [i \in 1..Len(rs[1].boxes) |-> DetectionBox(rs[1], rs[1].boxes[i])]
         \o detection_boxes_of(Tail(rs))

\* cv2.rectangle / cv2.putText per box, then imencode('.jpg') and b64encode.
base64_of(image, boxes) ==
  [b64jpg |-> image,
   drawn |-> [i \in 1..Len(boxes) |->
               <<boxes[i].x1, boxes[i].y1, boxes[i].x2, boxes[i].y2,
                 boxes[i].class_name, boxes[i].confidence>>]]

\* process_detection(img, results): detected_objects, detection_boxes, base64_image
process_detection(image, rs) ==
  LET detection_boxes == detection_boxes_of(rs)
      detected_objects == [i \in 1..Len(detection_boxes) |-> detection_boxes[i].class_name]
  IN  <<detected_objects, detection_boxes, base64_of(image, detection_boxes)>>

\* Mutant of list_set: list(detected_objects), the set() forgotten.
list_keeping_duplicates(seq) == {seq}

\* list(set(detected_objects)): the distinct names, in an order the hash
\* seed of the process decides.
list_set(seq) ==
  LET S == Range(seq)
  IN  {l \in [1..Cardinality(S) -> S] : Range(l) = S}

\* raise HTTPException(status_code=..., detail=...)
HTTPException(status_code, detail) ==
  [cls |-> "HTTPException", status_code |-> status_code, detail |-> detail]

\* str(e), a text held as its fragments.  For an HTTPException built with
\* keyword arguments it is "" in Starlette releases without __str__ and
\* "<status_code>: <detail>" in the releases that define it.
str(e) ==
  IF e.cls = "HTTPException"
  THEN {<<>>, <<e.status_code, ": ", e.detail>>}
  ELSE {<<e.msg>>}

\* Mutant of except_Exception: the 500 response drops the failure's text.
except_Exception_without_text(e) == {[status |-> "500", detail |-> <<>>]}

\* except Exception as e: raise HTTPException(status_code=500, detail=str(e))
except_Exception(e) ==
  {[status |-> "500", detail |-> d] : d \in str(e)}

\* Mutants of list_append: insert(0, detection), and a rebinding of the list
\* that loses what another request appended.
list_prepend(history, d) == <<d>> \o history
list_overwrite(history, d) == <<d>>

\* detection_history.append(detection)
list_append(history, d) == Append(history, d)

\* detection = DetectionResult(...) of detect_objects.  The timestamp field
\* (datetime.now()) is written once and read by no handler; it is left out.
detect_DetectionResult(id, objects, boxes, base64_image) ==
  [id |-> id, type |-> "live", objects |-> objects, boxes |-> boxes,
   imageUrl |-> None, base64_image |-> base64_image]

\* Mutant of upload_DetectionResult: the type copied from detect_objects.
upload_DetectionResult_as_live(id, objects, boxes, path, base64_image) ==
  [id |-> id, type |-> "live", objects |-> objects, boxes |-> boxes,
   imageUrl |-> path, base64_image |-> base64_image]

\* detection = DetectionResult(...) of upload_image.
upload_DetectionResult(id, objects, boxes, path, base64_image) ==
  [id |-> id, type |-> "upload", objects |-> objects, boxes |-> boxes,
   imageUrl |-> path, base64_image |-> base64_image]

\* The dict a handler returns on success.
success(d) ==
  [status |-> "200",
   body |-> [objects |-> d.objects, boxes |-> d.boxes, base64_image |-> d.base64_image]]

\* ---------------------------------------------------------------- Init
Init ==
  /\ detection_history = <<>>
  /\ uploads = {}
  /\ uuid_count = 0
  /\ history_response = None
  /\ pc = [r \in Requests |-> "new"]
  /\ endpoint = [r \in Requests |-> "none"]
  /\ content_type = [r \in Requests |-> None]
  /\ contents = [r \in Requests |-> None]
  /\ file_path = [r \in Requests |-> None]
  /\ img = [r \in Requests |-> None]
  /\ results = [r \in Requests |-> None]
  /\ detection = [r \in Requests |-> None]
  /\ error = [r \in Requests |-> None]
  /\ model_calls = [r \in Requests |-> 0]
  /\ response = [r \in Requests |-> None]

\* Requests arrive in the order of their numbers.
arrives(r) == pc[r] = "new" /\ (IF r = 1 THEN TRUE ELSE pc[r - 1] # "new")

\* The handler of request r ends in the except clause with exception e.
fails(r, e) ==
  /\ error' = [error EXCEPT ![r] = Some(e)]
  /\ \E resp \in except_Exception(e) : response' = [response EXCEPT ![r] = Some(resp)]
  /\ pc' = [pc EXCEPT ![r] = "done"]

\* The boxes reported so far, and the outcomes that keep them within MaxBoxes.
RECURSIVE count_boxes(_)
count_boxes(rs) == IF rs = <<>> THEN 0 ELSE Len(rs[1].boxes) + count_boxes(Tail(rs))

RECURSIVE boxes_reported(_)
boxes_reported(n) ==
  IF n = 0 THEN 0
  ELSE boxes_reported(n - 1) + (IF results[n] = None THEN 0 ELSE count_boxes(results[n][1]))

within_budget(out) ==
  out.tag = "return" => boxes_reported(MaxRequests) + count_boxes(out.results) <= MaxBoxes

\* results = model(img); process_detection; DetectionResult(...);
\* detection_history.append(detection); return {...}
\* -- the common tail of both handlers once img is decoded.
detect_and_record(r, image) ==
  \E out \in ModelOutcomes :
    /\ within_budget(out)
    /\ model_calls' = [model_calls EXCEPT ![r] = @ + 1]
    /\ IF out.tag = "raise"
       THEN /\ fails(r, out.exc)
            /\ UNCHANGED <<detection_history, uuid_count, results, detection>>
       ELSE LET processed == process_detection(image, out.results)
            IN  \E objects \in list_set(processed[1]) :
                  LET id == uuid4(uuid_count)
                      d == IF endpoint[r] = "detect"
                           THEN detect_DetectionResult(id, objects, processed[2],
                                                       processed[3])
                           ELSE upload_DetectionResult(id, objects, processed[2],
                                                       file_path[r], processed[3])
                  IN  /\ uuid_count' = uuid4(uuid_count)
                      /\ results' = [results EXCEPT ![r] = Some(out.results)]
                      /\ detection' = [detection EXCEPT ![r] = Some(d)]
                      /\ detection_history' = list_append(detection_history, d)
                      /\ response' = [response EXCEPT ![r] = Some(success(d))]
                      /\ pc' = [pc EXCEPT ![r] = "done"]
                      /\ UNCHANGED error

\* ---------------------------------------------------------------- POST /detect
\* detect_objects up to `contents = await file.read()`.
detect_objects_begin(r) ==
  /\ arrives(r)
  /\ endpoint' = [endpoint EXCEPT ![r] = "detect"]
  /\ pc' = [pc EXCEPT ![r] = "reading"]
  /\ UNCHANGED <<detection_history, uploads, uuid_count, history_response,
                 content_type, locals>>

\* detect_objects after the await.
detect_objects_resume(r) ==
  /\ pc[r] = "reading" /\ endpoint[r] = "detect"
  /\ \E bytes \in Bytes(r) :
       LET image == imdecode(bytes)
       IN  /\ contents' = [contents EXCEPT ![r] = bytes]
           /\ img' = [img EXCEPT ![r] = image]
           /\ IF image = None
              THEN /\ fails(r, HTTPException("400", "Invalid image format"))
                   /\ UNCHANGED <<detection_history, uuid_count, results, detection,
                                  model_calls>>
              ELSE detect_and_record(r, image)
  /\ UNCHANGED <<uploads, history_response, endpoint, content_type, file_path>>

\* ---------------------------------------------------------------- POST /upload
\* upload_image up to `contents = await file.read()`.
upload_image_begin(r) ==
  /\ arrives(r)
  /\ endpoint' = [endpoint EXCEPT ![r] = "upload"]
  /\ \E ctype \in ContentTypes, filename \in Filenames :
       /\ content_type' = [content_type EXCEPT ![r] = ctype]
       /\ IF ctype = None
          THEN /\ fails(r, [cls |-> "AttributeError",
                            msg |-> "'NoneType' object has no attribute 'startswith'"])
               /\ UNCHANGED <<uuid_count, file_path>>
          ELSE IF ~startswith_image(ctype)
          THEN /\ fails(r, HTTPException("400", "File must be an image"))
               /\ UNCHANGED <<uuid_count, file_path>>
          ELSE /\ uuid_count' = uuid4(uuid_count)
               /\ file_path' = [file_path EXCEPT ![r] =
                                  path_join(UPLOAD_DIR, uuid4(uuid_count), filename)]
               /\ pc' = [pc EXCEPT ![r] = "reading"]
               /\ UNCHANGED <<error, response>>
  /\ UNCHANGED <<detection_history, uploads, history_response, contents, img,
                 results, detection, model_calls>>

\* upload_image after the await.
upload_image_resume(r) ==
  /\ pc[r] = "reading" /\ endpoint[r] = "upload"
  /\ \E bytes \in Bytes(r), written \in BOOLEAN :
       /\ contents' = [contents EXCEPT ![r] = bytes]
       /\ IF ~written
          THEN /\ fails(r, [cls |-> "OSError", msg |-> "cannot open file"])
               /\ UNCHANGED <<detection_history, uploads, uuid_count, img, results,
                              detection, model_calls>>
          ELSE LET files == write_file(uploads, file_path[r], bytes)
                   image == imread(files, file_path[r])
               IN  /\ uploads' = files
                   /\ img' = [img EXCEPT ![r] = image]
                   /\ IF image = None
                      THEN /\ fails(r, HTTPException("400", "Failed to read image"))
                           /\ UNCHANGED <<detection_history, uuid_count, results,
                                          detection, model_calls>>
                      ELSE detect_and_record(r, image)
  /\ UNCHANGED <<history_response, endpoint, content_type, file_path>>

\* Mutant of get_history: the list is handed out and emptied.
get_history_draining ==
  /\ history_response' = Some([history |-> detection_history])
  /\ detection_history' = <<>>
  /\ UNCHANGED <<uploads, uuid_count, pc, endpoint, content_type, locals>>

\* ---------------------------------------------------------------- GET /history
get_history ==
  /\ history_response' = Some([history |-> detection_history])
  /\ UNCHANGED <<detection_history, uploads, uuid_count, pc, endpoint, content_type,
                 locals>>

Next ==
  \/ \E r \in Requests : detect_objects_begin(r)
  \/ \E r \in Requests : detect_objects_resume(r)
  \/ \E r \in Requests : upload_image_begin(r)
  \/ \E r \in Requests : upload_image_resume(r)
  \/ get_history

Spec == Init /\ [][Next]_vars

\* ================================================================ properties
done(r) == pc[r] = "done"
succeeded(r) == done(r) /\ response[r][1].status = "200"
Succeeded == {r \in Requests : succeeded(r)}
completes(r) == pc[r] # "done" /\ pc'[r] = "done"

\* The text d contains the fragment.
Contains(d, fragment) == \E i \in 1..Len(d) : d[i] = fragment

\* The raw boxes the model returned to request r, in the model's order.
RECURSIVE raw_boxes(_)
raw_boxes(rs) == IF rs = <<>> THEN <<>> ELSE rs[1].boxes \o raw_boxes(Tail(rs))

\* The entries of the successful requests, in the order the requests arrived.
RECURSIVE in_submission_order(_)
in_submission_order(n) ==
  IF n = 0 THEN <<>>
  ELSE in_submission_order(n - 1) \o (IF succeeded(n) THEN <<detection[n][1]>> ELSE <<>>)

undecodable(r) == contents[r] # None /\ imdecode(contents[r]) = None
model_failed(r) == error[r] # None /\ error[r][1] \in ModelErrors
in_history(d) == \E i \in 1..Len(detection_history) : detection_history[i] = d

\* ---------------------------------------------------------------- C1
\* C1: a POST /detect whose bytes do not decode is answered with status 400,
\* without a call of the model and without a history entry.
C1_undecodable_detect_is_400 ==
  \A r \in Requests :
    (endpoint[r] = "detect" /\ done(r) /\ undecodable(r)) =>
      /\ response[r][1].status = "400"
      /\ model_calls[r] = 0
      /\ detection[r] = None
      /\ Len(detection_history) = Cardinality(Succeeded)

\* ---------------------------------------------------------------- C2
\* C2: a POST /upload whose declared content type does not begin with
\* "image/" is answered with status 400 and a text that mentions "must be an
\* image" (the detail "File must be an image"), before any file is written,
\* before any decoding or model call, and with the history unchanged.
C2_non_image_upload_is_400 ==
  \A r \in Requests :
    (endpoint[r] = "upload" /\ done(r) /\ content_type[r] # None
       /\ ~startswith_image(content_type[r])) =>
      /\ response[r][1].status = "400"
      /\ Contains(response[r][1].detail, "File must be an image")
      /\ file_path[r] = None /\ contents[r] = None /\ img[r] = None
      /\ model_calls[r] = 0
      /\ detection[r] = None
      /\ Len(detection_history) = Cardinality(Succeeded)

\* ---------------------------------------------------------------- C3
\* C3 as stated: the history holds exactly the entries of the successful
\* requests, in the order in which the requests were submitted.
C3_history_in_submission_order ==
  detection_history = in_submission_order(MaxRequests)

\* C3 as amended: the history holds exactly one entry per successful request;
\* a request that completes successfully puts its entry at the end of the list
\* (so the entries are in the order of completion) and lengthens it by one, a
\* step that completes no request successfully leaves the list alone, and
\* GET /history returns the list as it is.
C3_history_in_completion_order ==
  /\ [](Len(detection_history) = Cardinality(Succeeded))
  /\ [][/\ \A r \in Requests :
             (completes(r) /\ response'[r][1].status = "200") =>
               /\ detection_history' = Append(detection_history, detection'[r][1])
               /\ Len(detection_history') = Len(detection_history) + 1
        /\ (\A r \in Requests : ~(completes(r) /\ response'[r][1].status = "200")) =>
             detection_history' = detection_history
        /\ history_response' # history_response =>
             history_response'[1].history = detection_history]_vars

\* Two requests, one per endpoint, one of them without detections, have
\* completed in the reverse of their arrival order and the history was read.
C3_witness ==
  /\ Len(detection_history) = 2
  /\ succeeded(1) /\ succeeded(2)
  /\ detection_history = <<detection[2][1], detection[1][1]>>
  /\ endpoint[1] # endpoint[2]
  /\ \E i \in 1..2 : detection_history[i].boxes = <<>> /\ detection_history[i].objects = <<>>
  /\ history_response = Some([history |-> detection_history])

\* ---------------------------------------------------------------- C4
\* C4: in every history entry and every success response, boxes holds one
\* DetectionBox per raw detection, in the model's order, and objects has no
\* duplicates and is exactly the set of class names occurring in boxes.
well_formed(d, raw) ==
  /\ Len(d.boxes) = Len(raw)
  /\ \A i \in 1..Len(raw) :
       /\ d.boxes[i].class_name = names[raw[i].cls]
       /\ <<d.boxes[i].x1, d.boxes[i].y1, d.boxes[i].x2, d.boxes[i].y2>> = raw[i].xyxy
       /\ d.boxes[i].confidence = raw[i].conf
  /\ \A i, j \in 1..Len(d.objects) : i # j => d.objects[i] # d.objects[j]
  /\ Range(d.objects) = {d.boxes[i].class_name : i \in 1..Len(d.boxes)}
  /\ (d.boxes = <<>> => d.objects = <<>>)

C4_objects_are_the_distinct_classes ==
  /\ \A r \in Succeeded :
       /\ well_formed(detection[r][1], raw_boxes(results[r][1]))
       /\ well_formed(response[r][1].body, raw_boxes(results[r][1]))
  /\ \A i \in 1..Len(detection_history) :
       \E r \in Succeeded : detection_history[i] = detection[r][1]

\* An entry whose two boxes share one class.
C4_witness ==
  \E i \in 1..Len(detection_history) :
    LET d == detection_history[i]
    IN  Len(d.boxes) = 2 /\ d.boxes[1].class_name = d.boxes[2].class_name
          /\ Len(d.objects) = 1

\* ---------------------------------------------------------------- C5
\* C5: two requests that are in flight together each complete on their own:
\* each response is built from the request's own image and detections, the two
\* results have distinct ids, and both results are in the history.
own_response(r) ==
  LET body == response[r][1].body
  IN  /\ body.base64_image.b64jpg = imdecode(contents[r])
      /\ body.base64_image.b64jpg = <<"pixels", r>>
      /\ Len(body.boxes) = Len(raw_boxes(results[r][1]))
      /\ \A i \in 1..Len(body.boxes) :
           body.boxes[i].class_name = names[raw_boxes(results[r][1])[i].cls]
      /\ body.boxes = detection[r][1].boxes /\ body.objects = detection[r][1].objects

C5_concurrent_requests_complete_independently ==
  \A r1, r2 \in Succeeded :
    r1 # r2 =>
      /\ own_response(r1) /\ own_response(r2)
      /\ detection[r1][1].id # detection[r2][1].id
      /\ in_history(detection[r1][1]) /\ in_history(detection[r2][1])

\* Request 2 arrived while request 1 was at its await, and completed first.
C5_witness ==
  /\ succeeded(1) /\ succeeded(2)
  /\ detection_history = <<detection[2][1], detection[1][1]>>
  /\ detection[1][1].boxes # detection[2][1].boxes

\* ---------------------------------------------------------------- C6
\* C6: no two entries of the history have the same id.
C6_ids_are_unique ==
  \A i, j \in 1..Len(detection_history) :
    i # j => detection_history[i].id # detection_history[j].id

\* Entries of both endpoints are in the history.
C6_witness ==
  /\ Len(detection_history) >= 2
  /\ \E i, j \in 1..Len(detection_history) :
       detection_history[i].type = "live" /\ detection_history[j].type = "upload"

\* ---------------------------------------------------------------- C7
\* C7: when the call of the model raises, the response has status 500 and
\* carries the text of the failure, the model was called once for the request,
\* and the request adds nothing to the history.
C7_model_failure_is_500 ==
  /\ [](\A r \in Requests :
          /\ model_calls[r] <= 1
          /\ (done(r) /\ model_failed(r)) =>
               /\ response[r][1] = [status |-> "500", detail |-> <<error[r][1].msg>>]
               /\ model_calls[r] = 1
               /\ detection[r] = None)
  /\ [][\A r \in Requests :
          (completes(r) /\ error'[r] # None) =>
            detection_history' = detection_history]_vars

\* A request of each endpoint has ended with a failure of the model.
C7_witness ==
  \E r1, r2 \in Requests :
    /\ endpoint[r1] = "detect" /\ endpoint[r2] = "upload"
    /\ done(r1) /\ done(r2) /\ model_failed(r1) /\ model_failed(r2)

\* ---------------------------------------------------------------- C8
\* C8: the history is empty at the start and append-only: an entry at
\* position i stays at position i unchanged, and GET /history returns the full
\* list without changing it.
C8_history_is_append_only ==
  /\ detection_history = <<>>
  /\ [][/\ Len(detection_history') >= Len(detection_history)
        /\ \A i \in 1..Len(detection_history) :
             detection_history'[i] = detection_history[i]
        /\ history_response' # history_response =>
             /\ history_response' = Some([history |-> detection_history])
             /\ detection_history' = detection_history]_vars

\* The full list of two entries was returned.
C8_witness ==
  /\ Len(detection_history) = 2
  /\ history_response = Some([history |-> detection_history])

\* ---------------------------------------------------------------- C9
\* C9: every entry has type "live" or "upload", "live" when POST /detect
\* produced it and "upload" when POST /upload did, and has an imageUrl exactly
\* when its type is "upload".
C9_type_records_the_endpoint ==
  \A i \in 1..Len(detection_history) :
    LET d == detection_history[i]
    IN  /\ d.type \in {"live", "upload"}
        /\ (d.imageUrl # None) <=> (d.type = "upload")
        /\ \E r \in Succeeded :
             /\ detection[r][1] = d
             /\ endpoint[r] = (IF d.type = "live" THEN "detect" ELSE "upload")

\* One entry of each type.
C9_witness ==
  /\ \E i \in 1..Len(detection_history) :
       detection_history[i].type = "live" /\ detection_history[i].imageUrl = None
  /\ \E i \in 1..Len(detection_history) :
       detection_history[i].type = "upload" /\ detection_history[i].imageUrl # None

\* ---------------------------------------------------------------- C10
\* C10: stored files are never removed; every upload entry's imageUrl names a
\* stored file, distinct entries name distinct files, there are at least as
\* many stored files as upload entries, and an upload that passed the
\* content-type check and then failed at decoding or in the model has left a
\* stored file that no entry refers to.
stored(path) == \E f \in uploads : f.path = path
upload_entries == {i \in 1..Len(detection_history) : detection_history[i].type = "upload"}
failed_after_write(r) ==
  /\ endpoint[r] = "upload" /\ done(r) /\ error[r] # None
  /\ \/ error[r][1] = HTTPException("400", "Failed to read image")
     \/ model_failed(r)

C10_uploaded_files_are_kept ==
  /\ [](/\ \A i \in upload_entries : stored(detection_history[i].imageUrl)
        /\ \A i, j \in upload_entries :
             i # j => detection_history[i].imageUrl # detection_history[j].imageUrl
        /\ Cardinality({f.path : f \in uploads}) >= Cardinality(upload_entries)
        /\ \A r \in Requests :
             failed_after_write(r) =>
               /\ stored(file_path[r])
               /\ \A i \in 1..Len(detection_history) :
                    detection_history[i].imageUrl # file_path[r])
  /\ [][\A f \in uploads : f \in uploads']_vars

\* Two upload entries, or one upload entry beside an upload that failed after
\* its file was written.
C10_witness ==
  /\ Cardinality(upload_entries) >= 1
  /\ \E r \in Requests : failed_after_write(r) /\ error[r][1].cls = "HTTPException"
  /\ Cardinality(uploads) = 2

====
